---- MODULE Spec2Model ----
(***************************************************************************)
(* Model of the two utilities of the repository:                           *)
(*   task1/solution.py  the strict decorator (runtime argument type check) *)
(*   task2/solution.py  ParseWikiAnimals (paginated category scraper)      *)
(* Characters are Unicode code points, strings are sequences of them.      *)
(***************************************************************************)
EXTENDS Integers, Sequences, FiniteSets, TLC

VARIABLES
    \* ---- task2: ParseWikiAnimals instance and one parse() activation ----
    web,              \* the site: URL -> document served (fixed per behaviour)
    only_russian,     \* self._only_russian
    pages_processed,  \* self.pages_processed
    letters_result,   \* self.letters_result (dict: label -> count)
    pc,               \* position of the caller / of parse()
    url,              \* parse(): local url (None or Some(u))
    soup,             \* parse(): local soup
    parsed,           \* history: every soup handed to _parse_page so far
    run,              \* history: snapshot taken when parse() was entered, GETs issued
    last,             \* history: the last method step (operation, argument, result)
    \* ---- task1: one call of a function wrapped by strict ----
    s_pc, s_func, s_args, s_kwargs, s_calls, s_outcome

scraperVars == <<web, only_russian, pages_processed, letters_result, pc, url,
                 soup, parsed, run, last>>
strictVars == <<s_pc, s_func, s_args, s_kwargs, s_calls, s_outcome>>
vars == <<scraperVars, strictVars>>

\* Bounds of the model.
MaxParsed == 3
MaxArgs == 2

None == <<>>
Some(x) == <<x>>
Range(f) == {f[x] : x \in DOMAIN f}

----------------------------------------------------------------------------
\* Text: str.strip(), str.lower(), the substring test of "in".

\* code points for which str.isspace() holds (what str.strip() removes)
Whitespace == {9, 10, 11, 12, 13, 28, 29, 30, 31, 32, 133, 160, 5760, 8232, 8233,
               8239, 8287, 12288} \cup (8192..8202)

RECURSIVE LStrip(_)
LStrip(s) == IF s # <<>> /\ Head(s) \in Whitespace THEN LStrip(Tail(s)) ELSE s

RECURSIVE RStrip(_)
RStrip(s) ==
    IF s # <<>> /\ s[Len(s)] \in Whitespace THEN RStrip(SubSeq(s, 1, Len(s) - 1)) ELSE s

Strip(s) == RStrip(LStrip(s))

\* str.lower() on the basic Latin and Cyrillic blocks
LowerChar(c) ==
    IF c \in 65..90 THEN c + 32
    ELSE IF c \in 1040..1071 THEN c + 32
    ELSE IF c \in 1024..1039 THEN c + 80
    ELSE c

Lower(s) == [i \in 1..Len(s) |-> LowerChar(s[i])]

\* "абвгдеёжзийклмнопрстуфхцчшщъыьэюя"
russian_letters ==
    [i \in 1..33 |-> IF i <= 6 THEN 1071 + i ELSE IF i = 7 THEN 1105 ELSE 1070 + i]

\* Python's  x in y  for two strings: x occurs in y as a contiguous substring
StrIn(x, y) ==
    \E i \in 0..(Len(y) - Len(x)) : \A j \in 1..Len(x) : y[i + j] = x[j]

----------------------------------------------------------------------------
\* URLs and urllib.parse.urljoin.  A URL is [host, path, query]; an href is
\* one of the reference forms of RFC 3986 that urljoin distinguishes.

BASE_URL == [host |-> "ru.wikipedia.org", path |-> <<"wiki", "Cat">>, query |-> ""]

urljoin(base, href) ==
    CASE href.kind = "abs"   -> [host |-> href.host, path |-> href.path, query |-> href.query]
      [] href.kind = "root"  -> [host |-> base.host, path |-> href.path, query |-> href.query]
      [] href.kind = "rel"   -> [host |-> base.host,
                                 path |-> SubSeq(base.path, 1, Len(base.path) - 1) \o href.path,
                                 query |-> href.query]
      [] href.kind = "query" -> [host |-> base.host, path |-> base.path, query |-> href.query]
      [] href.kind = "empty" -> base

----------------------------------------------------------------------------
\* Documents (BeautifulSoup trees), reduced to what the scraper queries:
\*   mw_pages     soup.find("div", id="mw-pages") is not None
\*   content_ltr  that div holds a div of class mw-content-ltr
\*   groups       the div.mw-category-group elements of the document, in order
\*                (those of the content block when the block exists); each with
\*                h3 (has a heading), text (the heading's .text), ul (has a
\*                list), li (number of li elements under the first list)
\*   anchors      the a elements in document order: text (.string), has_href,
\*                href

Group(text, li) == [h3 |-> TRUE, text |-> text, ul |-> TRUE, li |-> li]
Doc(mw, ltr, groups, anchors) ==
    [mw_pages |-> mw, content_ltr |-> ltr, groups |-> groups, anchors |-> anchors]

NoHref == [kind |-> "empty", host |-> "", path |-> <<>>, query |-> ""]
HrefRoot(path, query) == [kind |-> "root", host |-> "", path |-> path, query |-> query]
HrefQuery(query) == [kind |-> "query", host |-> "", path |-> <<>>, query |-> query]
Anchor(text, href) == [text |-> text, has_href |-> TRUE, href |-> href]
AnchorNoHref(text) == [text |-> text, has_href |-> FALSE, href |-> NoHref]

\* the fixed label 'Следующая страница' (transliterated), and two other texts
NEXT_LABEL == "Sleduyushchaya stranitsa"
PaddedLabel == " Sleduyushchaya stranitsa "
PrevLabel == "Predydushchaya stranitsa"

\* heading texts
LA == <<1040>>              \* "А"
LB == <<1041>>              \* "Б"
LC == <<67>>                \* "C" (Latin)
LYo == <<1025>>             \* "Ё"
LPadA == <<10, 32, 1040, 32>>   \* "\n А "
LAb == <<1072, 1073>>       \* "аб"
LBa == <<1041, 1072>>       \* "Ба"
LEmpty == <<>>              \* an empty heading

\* the documents of TestParseWikiAnimals
HTML_PARSE_1 == Doc(TRUE, TRUE, <<Group(LA, 2), Group(LB, 1)>>, <<>>)
HTML_PARSE_ONLY_RU == Doc(TRUE, TRUE, <<Group(LB, 1), Group(LC, 1)>>, <<>>)
HTML_NEXT_LINK ==
    Doc(FALSE, FALSE, <<>>, <<Anchor(NEXT_LABEL, HrefRoot(<<"wiki", "Cat">>, "Page2"))>>)
HTML_NO_NEXT == Doc(FALSE, FALSE, <<>>, <<>>)

\* further documents
PageFirst ==
    Doc(TRUE, TRUE, <<Group(LA, 2), Group(LB, 1)>>,
        <<Anchor(NEXT_LABEL, HrefRoot(<<"wiki", "Cat">>, "Page2"))>>)
PageSecond ==
    Doc(TRUE, TRUE, <<Group(LB, 1), Group(LC, 1)>>,
        <<Anchor(PrevLabel, HrefQuery("Page0")), Anchor(NEXT_LABEL, HrefQuery("Page3"))>>)
PageOddLabels ==
    Doc(TRUE, TRUE,
        <<Group(LPadA, 1),
          [h3 |-> FALSE, text |-> <<>>, ul |-> TRUE, li |-> 1],
          [h3 |-> TRUE, text |-> LB, ul |-> FALSE, li |-> 0],
          Group(LAb, 1), Group(LEmpty, 1), Group(LBa, 1), Group(LYo, 0)>>,
        <<>>)
PageNoContainer ==
    Doc(FALSE, FALSE, <<Group(LA, 1)>>,
        <<Anchor(NEXT_LABEL, HrefRoot(<<"wiki", "Cat">>, "Page2"))>>)
PageNoContent == Doc(TRUE, FALSE, <<Group(LB, 2)>>, <<>>)
PageSelf == Doc(TRUE, TRUE, <<Group(LA, 1)>>, <<Anchor(NEXT_LABEL, NoHref)>>)
PageBack ==
    Doc(TRUE, TRUE, <<Group(LB, 1)>>, <<Anchor(NEXT_LABEL, HrefRoot(<<"wiki", "Cat">>, ""))>>)
PageToIndex ==
    Doc(TRUE, TRUE, <<Group(LA, 2)>>,
        <<Anchor(NEXT_LABEL, HrefRoot(<<"w", "index.php">>, "Page2"))>>)
PageTwoAnchors ==
    Doc(TRUE, TRUE, <<Group(LB, 1)>>,
        <<AnchorNoHref(NEXT_LABEL),
          Anchor(NEXT_LABEL, HrefRoot(<<"wiki", "Cat">>, "Page2"))>>)
PagePadded ==
    Doc(TRUE, TRUE, <<Group(LA, 2)>>,
        <<Anchor(PaddedLabel, HrefRoot(<<"wiki", "Cat">>, "Page2"))>>)

U0 == BASE_URL
U2 == [host |-> "ru.wikipedia.org", path |-> <<"wiki", "Cat">>, query |-> "Page2"]
U3 == [host |-> "ru.wikipedia.org", path |-> <<"wiki", "Cat">>, query |-> "Page3"]
UIndex == [host |-> "ru.wikipedia.org", path |-> <<"w", "index.php">>, query |-> "Page2"]

\* the sites a run may face
Webs ==
    { (U0 :> HTML_PARSE_1),
      (U0 :> PageFirst) @@ (U2 :> PageSecond) @@ (U3 :> PageOddLabels),
      (U0 :> PageSelf),
      (U0 :> PageFirst) @@ (U2 :> PageBack),
      (U0 :> PageNoContainer) @@ (U2 :> PageOddLabels),
      (U0 :> PageNoContent),
      (U0 :> PageToIndex) @@ (UIndex :> PageSecond) @@ (U3 :> HTML_PARSE_ONLY_RU),
      (U0 :> PageFirst),
      (U0 :> PageTwoAnchors) @@ (U2 :> HTML_PARSE_1),
      (U0 :> PagePadded) }

\* the documents a caller hands to _parse_page and to _next_page_url directly
ParseDocs == {HTML_PARSE_1, PageOddLabels, PageNoContainer}
LinkDocs == {HTML_NEXT_LINK, HTML_NO_NEXT, PageTwoAnchors}

----------------------------------------------------------------------------
\* ParseWikiAnimals: the methods as functions of the state they read.

base_url == BASE_URL

DictGet(d, k, default) == IF k \in DOMAIN d THEN d[k] ELSE default
DictSet(d, k, v) == [x \in DOMAIN d \cup {k} |-> IF x = k THEN v ELSE d[x]]

\* the letter test of _parse_page (lines 67-69): TRUE when the group is kept
LetterKept(letter, only_ru) ==
    ~only_ru \/ StrIn(Lower(letter), russian_letters)

\* variant: the count is stored, not added to the count so far
AddGroupOverwrite(result, g, only_ru) ==
    IF ~(g.h3 /\ g.ul) THEN result
    ELSE LET letter == Strip(g.text)
         IN  IF ~LetterKept(letter, only_ru) THEN result
             ELSE DictSet(result, letter, g.li)

\* one iteration of the loop over category_groups (lines 61-74)
AddGroup(result, g, only_ru) ==
    IF ~(g.h3 /\ g.ul) THEN result
    ELSE LET letter == Strip(g.text)
         IN  IF ~LetterKept(letter, only_ru) THEN result
             ELSE DictSet(result, letter, DictGet(result, letter, 0) + g.li)

RECURSIVE AddGroups(_, _, _)
AddGroups(result, groups, only_ru) ==
    IF groups = <<>> THEN result
    ELSE AddGroups(AddGroup(result, Head(groups), only_ru), Tail(groups), only_ru)

\* variant: the groups are collected from the whole document
parse_page_unguarded(result, s, only_ru) == AddGroups(result, s.groups, only_ru)

\* _parse_page: the value of letters_result after the call
parse_page(result, s, only_ru) ==
    IF ~s.mw_pages THEN result
    ELSE IF ~s.content_ltr THEN result
    ELSE AddGroups(result, s.groups, only_ru)

\* soup.find('a', string=...): index of the first anchor with that exact text, 0 if none
FindAnchor(s, text) ==
    IF \E i \in 1..Len(s.anchors) : s.anchors[i].text = text
    THEN CHOOSE i \in 1..Len(s.anchors) :
            /\ s.anchors[i].text = text
            /\ \A j \in 1..(i - 1) : s.anchors[j].text # text
    ELSE 0

\* variant: the href is resolved against the URL of the page being processed
next_page_url_from_page(s) ==
    LET i == FindAnchor(s, NEXT_LABEL)
    IN  IF i # 0 /\ s.anchors[i].has_href
        THEN Some(urljoin(IF url = None THEN base_url ELSE url[1], s.anchors[i].href))
        ELSE None

\* _next_page_url
next_page_url(s) ==
    LET i == FindAnchor(s, NEXT_LABEL)
    IN  IF i # 0 /\ s.anchors[i].has_href
        THEN Some(urljoin(base_url, s.anchors[i].href))
        ELSE None

\* variant: a URL already requested in this run ends the loop
WhileCondVisited(u) ==
    u # None /\ u[1] \notin {run.gets[i].url : i \in 1..Len(run.gets)}

\* the test of  while url:
WhileCond(u) == u # None

----------------------------------------------------------------------------
\* task1: strict.  A value is [cls, num, str]: its class, and its number (in
\* halves for a float) or its characters.  A function is [name, annotations],
\* annotations being func.__annotations__ in declaration order; the functions
\* here all have the parameters (a, b) and the body  return a + b.

IntV(n) == [cls |-> "int", num |-> n, str |-> <<>>]
BoolV(n) == [cls |-> "bool", num |-> n, str |-> <<>>]
FloatV(halves) == [cls |-> "float", num |-> halves, str |-> <<>>]
StrV(s) == [cls |-> "str", num |-> 0, str |-> s]
NoValue == [cls |-> "NoneType", num |-> 0, str |-> <<>>]

\* 3, 7, True, 1.5, "2"
Values == {IntV(3), IntV(7), BoolV(1), FloatV(3), StrV(<<50>>)}

\* issubclass over the builtin classes used
IsSubclass(c, d) == c = d \/ d = "object" \/ (c = "bool" /\ d = "int")

sum_two ==
    [name |-> "sum_two",
     annotations |-> <<<<"a", "int">>, <<"b", "int">>, <<"return", "int">>>>]
join_two ==
    [name |-> "join_two",
     annotations |-> <<<<"a", "int">>, <<"b", "str">>, <<"return", "str">>>>]
half_annotated == [name |-> "half_annotated", annotations |-> <<<<"b", "float">>>>]
unannotated == [name |-> "unannotated", annotations |-> <<>>]
Funcs == {sum_two, join_two, half_annotated, unannotated}

Params == <<"a", "b">>
ArgTuples == UNION {[1..n -> Values] : n \in 0..MaxArgs}
KwargDicts == UNION {[ks -> Values] : ks \in SUBSET {"a", "b"}}

Returned(v) == [kind |-> "return", val |-> v, exc |-> "", by |-> ""]
Raised(exc, by) == [kind |-> "raise", val |-> NoValue, exc |-> exc, by |-> by]

\* a + b
Add(x, y) ==
    IF x.cls \in {"int", "bool"} /\ y.cls \in {"int", "bool"}
    THEN Returned(IntV(x.num + y.num))
    ELSE IF x.cls \in {"int", "bool", "float"} /\ y.cls \in {"int", "bool", "float"}
    THEN Returned(FloatV((IF x.cls = "float" THEN x.num ELSE 2 * x.num)
                         + (IF y.cls = "float" THEN y.num ELSE 2 * y.num)))
    ELSE IF x.cls = "str" /\ y.cls = "str" THEN Returned(StrV(x.str \o y.str))
    ELSE Raised("TypeError", "func")

\* func(*args, **kwargs) for an undecorated function: argument binding, then the body
Call(f, args, kwargs) ==
    LET positional == {Params[i] : i \in 1..Len(Params)} \cap {Params[i] : i \in 1..Len(args)}
        Arg(i) == IF i <= Len(args) THEN args[i] ELSE kwargs[Params[i]]
    IN  IF Len(args) > Len(Params) THEN Raised("TypeError", "func")
        ELSE IF positional \cap DOMAIN kwargs # {} THEN Raised("TypeError", "func")
        ELSE IF \E i \in 1..Len(Params) : i > Len(args) /\ Params[i] \notin DOMAIN kwargs
        THEN Raised("TypeError", "func")
        ELSE Add(Arg(1), Arg(2))

\* lines 11-14: the annotations' values, the return annotation left out
param_types(f) ==
    LET keep == SelectSeq(f.annotations, LAMBDA kv : kv[1] # "return")
    IN  [i \in 1..Len(keep) |-> keep[i][2]]

\* variant: type(value) in types, which leaves subclasses out
isinstance_exact(value, types) == \E i \in 1..Len(types) : value.cls = types[i]

\* isinstance(value, types) for a tuple of classes
isinstance(value, types) == \E i \in 1..Len(types) : IsSubclass(value.cls, types[i])

\* variant: the keyword values are not looked at
all_kwargs_unchecked(kwargs, types) == TRUE

\* line 16 with all(args_ok), line 17 with all(kwargs_ok)
all_args_ok(args, types) == \A i \in 1..Len(args) : isinstance(args[i], types)
all_kwargs_ok(kwargs, types) == \A k \in DOMAIN kwargs : isinstance(kwargs[k], types)

\* wrapper (lines 10-24): the outcome of the call and how often func was invoked
wrapper(f, args, kwargs) ==
    LET types == param_types(f)
    IN  IF ~all_args_ok(args, types) \/ ~all_kwargs_ok(kwargs, types)
        THEN [outcome |-> Raised("TypeError", "wrapper"), calls |-> 0]
        ELSE [outcome |-> Call(f, args, kwargs), calls |-> 1]

----------------------------------------------------------------------------
\* ParseWikiAnimals: the state machine.
\*   pc = "idle"    constructed, or a direct method call has returned
\*        "while" .. "next_url"   inside parse(), before the named line runs
\*        "done"    parse() has returned
\*        "raised"  parse() has propagated an exception to its caller

EmptyDict == [x \in {} |-> 0]
Quiescent == {"idle", "done", "raised"}
NoCall == [op |-> "none", arg |-> HTML_NO_NEXT, letters0 |-> EmptyDict,
           pages0 |-> 0, ret |-> None]

\* __init__ (lines 24-36), for each site and each value of the flag
ScraperInit ==
    /\ web \in Webs
    /\ only_russian \in BOOLEAN
    /\ pages_processed = 0
    /\ letters_result = EmptyDict
    /\ pc = "idle"
    /\ url = None
    /\ soup = HTML_NO_NEXT
    /\ parsed = <<>>
    /\ run = [pages0 |-> 0, letters0 |-> EmptyDict, parsed0 |-> 0, gets |-> <<>>]
    /\ last = NoCall

\* a caller invokes _parse_page(s) on the instance (as test_parse_page does)
ParsePageCall(s) ==
    /\ pc \in Quiescent
    /\ Len(parsed) < MaxParsed
    /\ letters_result' = parse_page(letters_result, s, only_russian)
    /\ parsed' = Append(parsed, s)
    /\ last' = [op |-> "_parse_page", arg |-> s, letters0 |-> letters_result,
                pages0 |-> pages_processed, ret |-> None]
    /\ pc' = "idle"
    /\ UNCHANGED <<web, only_russian, pages_processed, url, soup, run>>

\* a caller invokes _next_page_url(s) on the instance (as test_next_link does)
NextPageUrlCall(s) ==
    /\ pc \in Quiescent
    /\ last' = [op |-> "_next_page_url", arg |-> s, letters0 |-> letters_result,
                pages0 |-> pages_processed, ret |-> next_page_url(s)]
    /\ pc' = "idle"
    /\ UNCHANGED <<web, only_russian, pages_processed, letters_result, url, soup,
                   parsed, run>>

\* parse(), line 96
StartParse ==
    /\ pc \in Quiescent
    /\ url' = Some(base_url)
    /\ run' = [pages0 |-> pages_processed, letters0 |-> letters_result,
               parsed0 |-> Len(parsed), gets |-> <<>>]
    /\ pc' = "while"
    /\ UNCHANGED <<web, only_russian, pages_processed, letters_result, soup, parsed, last>>

\* parse(), line 97; leaving the loop runs the log call of lines 103-107
WhileTest ==
    /\ pc = "while"
    /\ pc' = IF WhileCond(url) THEN "get_soup" ELSE "done"
    /\ UNCHANGED <<web, only_russian, pages_processed, letters_result, url, soup,
                   parsed, run, last>>

\* parse(), line 98: _get_soup returns the document the site serves at url
GetSoupOk ==
    /\ pc = "get_soup"
    /\ Len(parsed) < MaxParsed
    /\ url[1] \in DOMAIN web
    /\ soup' = web[url[1]]
    /\ run' = [run EXCEPT !.gets = Append(@, [url |-> url[1], ok |-> TRUE])]
    /\ pc' = "parse_page"
    /\ UNCHANGED <<web, only_russian, pages_processed, letters_result, url, parsed, last>>

\* parse(), line 98: raise_for_status raises (the site serves nothing at url)
GetSoupHttpError ==
    /\ pc = "get_soup"
    /\ url[1] \notin DOMAIN web
    /\ run' = [run EXCEPT !.gets = Append(@, [url |-> url[1], ok |-> FALSE])]
    /\ pc' = "raised"
    /\ UNCHANGED <<web, only_russian, pages_processed, letters_result, url, soup,
                   parsed, last>>

\* variant: the page is counted before the request is made
GetSoupNetworkErrorCounted ==
    /\ pc = "get_soup"
    /\ run' = [run EXCEPT !.gets = Append(@, [url |-> url[1], ok |-> FALSE])]
    /\ pages_processed' = pages_processed + 1
    /\ pc' = "raised"
    /\ UNCHANGED <<web, only_russian, letters_result, url, soup, parsed, last>>

\* parse(), line 98: client.get raises (network error, timeout)
GetSoupNetworkError ==
    /\ pc = "get_soup"
    /\ run' = [run EXCEPT !.gets = Append(@, [url |-> url[1], ok |-> FALSE])]
    /\ pc' = "raised"
    /\ UNCHANGED <<web, only_russian, pages_processed, letters_result, url, soup,
                   parsed, last>>

\* variant: a document without the container aborts the run
ParsePageStepAbort ==
    /\ pc = "parse_page"
    /\ letters_result' = parse_page(letters_result, soup, only_russian)
    /\ parsed' = Append(parsed, soup)
    /\ last' = [op |-> "_parse_page", arg |-> soup, letters0 |-> letters_result,
                pages0 |-> pages_processed, ret |-> None]
    /\ pc' = IF ~soup.mw_pages \/ ~soup.content_ltr THEN "raised" ELSE "inc"
    /\ UNCHANGED <<web, only_russian, pages_processed, url, soup, run>>

\* parse(), line 99
ParsePageStep ==
    /\ pc = "parse_page"
    /\ letters_result' = parse_page(letters_result, soup, only_russian)
    /\ parsed' = Append(parsed, soup)
    /\ last' = [op |-> "_parse_page", arg |-> soup, letters0 |-> letters_result,
                pages0 |-> pages_processed, ret |-> None]
    /\ pc' = "inc"
    /\ UNCHANGED <<web, only_russian, pages_processed, url, soup, run>>

\* variant: the counter is advanced twice per page
IncPagesTwice ==
    /\ pc = "inc"
    /\ pages_processed' = pages_processed + 2
    /\ pc' = "next_url"
    /\ UNCHANGED <<web, only_russian, letters_result, url, soup, parsed, run, last>>

\* parse(), line 100
IncPages ==
    /\ pc = "inc"
    /\ pages_processed' = pages_processed + 1
    /\ pc' = "next_url"
    /\ UNCHANGED <<web, only_russian, letters_result, url, soup, parsed, run, last>>

\* parse(), line 101
NextUrlStep ==
    /\ pc = "next_url"
    /\ url' = next_page_url(soup)
    /\ last' = [op |-> "_next_page_url", arg |-> soup, letters0 |-> letters_result,
                pages0 |-> pages_processed, ret |-> next_page_url(soup)]
    /\ pc' = "while"
    /\ UNCHANGED <<web, only_russian, pages_processed, letters_result, soup, parsed, run>>

StrictIdle ==
    /\ s_pc = "idle"
    /\ s_func = unannotated
    /\ s_args = <<>>
    /\ s_kwargs = EmptyDict
    /\ s_calls = 0
    /\ s_outcome = [kind |-> "none", val |-> NoValue, exc |-> "", by |-> ""]

Init == ScraperInit /\ StrictIdle

Next ==
    \/ (\E s \in ParseDocs : ParsePageCall(s)) /\ UNCHANGED strictVars
    \/ (\E s \in LinkDocs : NextPageUrlCall(s)) /\ UNCHANGED strictVars
    \/ StartParse /\ UNCHANGED strictVars
    \/ WhileTest /\ UNCHANGED strictVars
    \/ GetSoupOk /\ UNCHANGED strictVars
    \/ GetSoupHttpError /\ UNCHANGED strictVars
    \/ GetSoupNetworkError /\ UNCHANGED strictVars
    \/ ParsePageStep /\ UNCHANGED strictVars
    \/ IncPages /\ UNCHANGED strictVars
    \/ NextUrlStep /\ UNCHANGED strictVars

Spec == Init /\ [][Next]_vars

----------------------------------------------------------------------------
\* task1: a caller calls a decorated function; wrapper then runs to its end.

\* the call expression: the function and the arguments the caller supplies
StrictCall ==
    /\ s_pc = "idle"
    /\ \E f \in Funcs, args \in ArgTuples, kwargs \in KwargDicts :
          /\ s_func' = f
          /\ s_args' = args
          /\ s_kwargs' = kwargs
    /\ s_pc' = "wrapper"
    /\ UNCHANGED <<s_calls, s_outcome>>

\* wrapper, lines 10-24
StrictWrapper ==
    /\ s_pc = "wrapper"
    /\ s_calls' = s_calls + wrapper(s_func, s_args, s_kwargs).calls
    /\ s_outcome' = wrapper(s_func, s_args, s_kwargs).outcome
    /\ s_pc' = IF wrapper(s_func, s_args, s_kwargs).outcome.kind = "raise"
               THEN "raised" ELSE "returned"
    /\ UNCHANGED <<s_func, s_args, s_kwargs>>

ScraperFresh ==
    /\ ScraperInit
    /\ web = (U0 :> HTML_PARSE_1)
    /\ only_russian = FALSE

InitStrict == ScraperFresh /\ StrictIdle

NextStrict ==
    \/ StrictCall /\ UNCHANGED scraperVars
    \/ StrictWrapper /\ UNCHANGED scraperVars

SpecStrict == InitStrict /\ [][NextStrict]_vars

\* One parse() call on a fresh instance with every request answered: the
\* loop is sequential code that keeps running until it returns or raises.
FirstParse == pc = "idle" /\ StartParse

NextLive ==
    \/ FirstParse /\ UNCHANGED strictVars
    \/ WhileTest /\ UNCHANGED strictVars
    \/ GetSoupOk /\ UNCHANGED strictVars
    \/ GetSoupHttpError /\ UNCHANGED strictVars
    \/ ParsePageStep /\ UNCHANGED strictVars
    \/ IncPages /\ UNCHANGED strictVars
    \/ NextUrlStep /\ UNCHANGED strictVars

SpecLive == Init /\ [][NextLive]_vars /\ WF_vars(NextLive)

----------------------------------------------------------------------------
\* Vocabulary of the properties.

\* the values of one call of a decorated function, and the declared types
CallValues == Range(s_args) \cup Range(s_kwargs)
DeclaredTypes(f) ==
    {f.annotations[i][2] : i \in {j \in 1..Len(f.annotations) : f.annotations[j][1] # "return"}}
StrictFinished == s_pc \in {"returned", "raised"}

\* the groups _parse_page reaches in a document, and the container test
MissingContainer(s) == ~s.mw_pages \/ ~s.content_ltr
FoundGroups(s) == IF MissingContainer(s) THEN <<>> ELSE s.groups
Label(g) == Strip(g.text)
Alphabet == {russian_letters[i] : i \in 1..Len(russian_letters)}
IsRussianLetter(letter) == Len(letter) = 1 /\ LowerChar(letter[1]) \in Alphabet

\* a group with a heading and a list that passes the letter test of the program
Accepted(g) == g.h3 /\ g.ul /\ LetterKept(Label(g), only_russian)
\* a group that contributes according to the filtering rule as documented
Documented(g) == g.h3 /\ g.ul /\ (only_russian => IsRussianLetter(Label(g)))

\* list items of the accepted groups labelled L in one document / in a sequence of them
DocCount(s, L) ==
    LET gs == FoundGroups(s)
        f[i \in 0..Len(gs)] ==
            IF i = 0 THEN 0
            ELSE f[i - 1] + (IF Accepted(gs[i]) /\ Label(gs[i]) = L THEN gs[i].li ELSE 0)
    IN  f[Len(gs)]
DocsCount(docs, L) ==
    LET f[i \in 0..Len(docs)] == IF i = 0 THEN 0 ELSE f[i - 1] + DocCount(docs[i], L)
    IN  f[Len(docs)]
DocLabels(s) ==
    {Label(FoundGroups(s)[i]) : i \in {j \in 1..Len(FoundGroups(s)) : Accepted(FoundGroups(s)[j])}}
DocsLabels(docs) == UNION {DocLabels(docs[i]) : i \in 1..Len(docs)}

\* the same bookkeeping under the documented filter
DocumentedCount(s, L) ==
    LET gs == FoundGroups(s)
        f[i \in 0..Len(gs)] ==
            IF i = 0 THEN 0
            ELSE f[i - 1] + (IF Documented(gs[i]) /\ Label(gs[i]) = L THEN gs[i].li ELSE 0)
    IN  f[Len(gs)]
DocumentedLabels(s) ==
    {Label(FoundGroups(s)[i]) : i \in {j \in 1..Len(FoundGroups(s)) : Documented(FoundGroups(s)[j])}}

\* the next-link chain of the site: the URLs met from u in at most n requests
NextOf(u) == IF u \in DOMAIN web THEN next_page_url(web[u]) ELSE None
RECURSIVE Walk(_, _)
Walk(u, n) ==
    IF n = 0 THEN <<>>
    ELSE IF NextOf(u) = None THEN <<u>>
    ELSE <<u>> \o Walk(NextOf(u)[1], n - 1)
Chain == Walk(base_url, Cardinality(DOMAIN web) + 1)
\* every URL of the chain is served; then the chain either reaches a page
\* without a next link or comes back to a URL it has met
ChainServed == \A i \in 1..Len(Chain) : Chain[i] \in DOMAIN web
ChainEnds == ChainServed /\ Len(Chain) <= Cardinality(DOMAIN web)
ChainCycles == ChainServed /\ Len(Chain) > Cardinality(DOMAIN web)

\* the current parse() activation
Gets == run.gets
OkGets == Cardinality({i \in 1..Len(Gets) : Gets[i].ok})
RunPages == pages_processed - run.pages0
RunParsed == SubSeq(parsed, run.parsed0 + 1, Len(parsed))
InRun == pc \notin {"idle"}
\* the first anchor carrying the next-page label, as a set (empty or one index)
FirstLabelled(s) ==
    {i \in 1..Len(s.anchors) :
        /\ s.anchors[i].text = NEXT_LABEL
        /\ \A j \in 1..Len(s.anchors) : s.anchors[j].text = NEXT_LABEL => i <= j}
LabelledWithHref(s) ==
    {i \in 1..Len(s.anchors) : s.anchors[i].text = NEXT_LABEL /\ s.anchors[i].has_href}

----------------------------------------------------------------------------
\* Properties of strict (checked under SpecStrict).

\* C1: when every positional and keyword value is an instance of at least one
\* declared non-return parameter type (whatever parameter it is bound to), the
\* wrapper invokes the function exactly once with the same arguments and its
\* outcome is the outcome of the undecorated function.
C1_WellTypedCallDelegates ==
    (StrictFinished /\ \A v \in CallValues :
                           \E c \in DeclaredTypes(s_func) : IsSubclass(v.cls, c))
        => /\ s_calls = 1
           /\ s_outcome = Call(s_func, s_args, s_kwargs)

\* join_two(a: int, b: str) called with (3, 7): both values are ints, one of
\* them bound to the str parameter, and the call returns 10
C1_Witness ==
    /\ s_pc = "returned"
    /\ s_func = join_two
    /\ s_args = <<IntV(3), IntV(7)>>
    /\ s_kwargs = EmptyDict
    /\ s_outcome = Returned(IntV(10))
    /\ s_calls = 1

\* C2: when some positional or keyword value is an instance of none of the
\* declared non-return parameter types, the wrapper raises TypeError and the
\* wrapped function is not invoked.
C2_IllTypedCallRaises ==
    (StrictFinished /\ \E v \in CallValues :
                           \A c \in DeclaredTypes(s_func) : ~IsSubclass(v.cls, c))
        => /\ s_outcome = Raised("TypeError", "wrapper")
           /\ s_calls = 0

\* sum_two(a=3, b="2"): the str arrives by keyword
C2_Witness ==
    /\ s_pc = "raised"
    /\ s_func = sum_two
    /\ s_args = <<>>
    /\ s_kwargs = ("a" :> IntV(3)) @@ ("b" :> StrV(<<50>>))
    /\ s_outcome = Raised("TypeError", "wrapper")
    /\ s_calls = 0

----------------------------------------------------------------------------
\* Properties of ParseWikiAnimals (checked under Spec, C10 under SpecLive).

\* C3: after any sequence of _parse_page calls on the instance, direct or made
\* by parse() runs, letters_result[L] is the sum over all documents parsed so
\* far of the list-item counts of the accepted groups labelled L, and its keys
\* are exactly the labels some accepted group carried.
C3_CountsAreSums ==
    /\ DOMAIN letters_result = DocsLabels(parsed)
    /\ \A L \in DOMAIN letters_result : letters_result[L] = DocsCount(parsed, L)

\* {"А": 2, "Б": 1} from a direct call, then a parse() run over two pages, one
\* of them adding to "А"
C3_Witness ==
    /\ pc = "done"
    /\ run.parsed0 = 1
    /\ parsed[1] = HTML_PARSE_1
    /\ Len(parsed) = 3
    /\ LA \in DOMAIN letters_result /\ letters_result[LA] = 3
    /\ LB \in DOMAIN letters_result /\ letters_result[LB] = 1

\* C4: a _parse_page call changes letters_result by exactly the groups the
\* documented filter admits: with Russian-only filtering, those whose trimmed,
\* lowercased label is one of the 33 letters; without it, every group with a
\* heading and a list.
C4_FilterIsAlphabetMembership ==
    last.op = "_parse_page" =>
        /\ DOMAIN letters_result = DOMAIN last.letters0 \cup DocumentedLabels(last.arg)
        /\ \A L \in DOMAIN letters_result :
              letters_result[L] = DictGet(last.letters0, L, 0) + DocumentedCount(last.arg, L)

\* C5: a _parse_page call on a document without the container (no div
\* mw-pages, or no mw-content-ltr block in it) leaves letters_result as it was
\* and does not raise.
C5_MissingContainerChangesNothing ==
    [][(Len(parsed') = Len(parsed) + 1 /\ MissingContainer(parsed'[Len(parsed')]))
          => letters_result' = letters_result /\ pc' \in {"idle", "inc"}]_vars

C5_Witness ==
    /\ last.op = "_parse_page"
    /\ MissingContainer(last.arg)
    /\ last.letters0 # EmptyDict
    /\ letters_result = last.letters0

\* C6: parse() requests the URLs of the next-link chain from the base URL in
\* chain order, one request per step; each page is parsed before its next link
\* is computed and counted once; parse() returns exactly when the chain has
\* been walked to its end, having raised pages_processed by the chain's length.
C6_SequentialWalk ==
    InRun =>
        /\ Len(Gets) <= MaxParsed + 1
        /\ \A i \in 1..Len(Gets) : Gets[i].url = Walk(base_url, MaxParsed + 1)[i]
        /\ RunPages >= 0
        /\ pc \in {"while", "get_soup", "next_url", "done"} =>
              RunPages = OkGets /\ Len(RunParsed) = OkGets
        /\ pc = "parse_page" => RunPages = OkGets - 1 /\ Len(RunParsed) = OkGets - 1
        /\ pc = "inc" => RunPages = OkGets - 1 /\ Len(RunParsed) = OkGets
        /\ pc = "done" =>
              /\ url = None
              /\ ChainEnds
              /\ Len(Gets) = Len(Chain)
              /\ \A i \in 1..Len(Gets) : Gets[i].ok /\ Gets[i].url = Chain[i]
              /\ \A i, j \in 1..Len(Gets) : Gets[i].url = Gets[j].url => i = j
              /\ RunParsed = [i \in 1..Len(Gets) |-> web[Gets[i].url]]
              /\ pages_processed = run.pages0 + Len(Chain)

C6_Witness ==
    /\ pc = "done"
    /\ Len(Gets) = 3
    /\ Gets[2].url = UIndex
    /\ pages_processed = 3

\* C7: when parse() has raised, the failed request is the last one made, every
\* request before it succeeded, and letters_result and pages_processed hold
\* what they held when parse() was entered plus the pages processed before it.
C7_FetchFailurePropagates ==
    pc = "raised" =>
        LET n == Len(Gets)
            done == [i \in 1..(n - 1) |-> web[Gets[i].url]]
        IN  /\ n >= 1
            /\ ~Gets[n].ok
            /\ \A i \in 1..(n - 1) : Gets[i].ok
            /\ pages_processed = run.pages0 + (n - 1)
            /\ RunParsed = done
            /\ DOMAIN letters_result = DOMAIN run.letters0 \cup DocsLabels(done)
            /\ \A L \in DOMAIN letters_result :
                  letters_result[L] = DictGet(run.letters0, L, 0) + DocsCount(done, L)

\* the third request fails after two pages were processed
C7_Witness ==
    /\ pc = "raised"
    /\ Len(Gets) = 3
    /\ pages_processed = run.pages0 + 2
    /\ letters_result # run.letters0

\* C8 as stated: a page without the container ends the run at that page,
\* because its next-link resolution finds nothing.
C8_MissEndsRun ==
    (pc = "while" /\ Gets # <<>> /\ MissingContainer(soup)) => url = None

\* C8 as amended: a page without the container does not abort the run and
\* contributes nothing; its next link is resolved like that of any page, and
\* the run ends at that page only if there is none, else requests the link.
C8_MissContinues ==
    /\ (pc = "inc" /\ MissingContainer(soup)) => letters_result = last.letters0
    /\ pc = "raised" => ~Gets[Len(Gets)].ok
    /\ (pc \in {"while", "get_soup", "done"} /\ Gets # <<>> /\ MissingContainer(soup)) =>
          /\ \A i \in FirstLabelled(soup) :
                soup.anchors[i].has_href =>
                    /\ url = Some(urljoin(BASE_URL, soup.anchors[i].href))
                    /\ pc # "done"
          /\ (\A i \in FirstLabelled(soup) : ~soup.anchors[i].has_href) =>
                url = None /\ pc # "get_soup"

\* the page without the container was counted and the run goes on to its link
C8_Witness ==
    /\ pc = "get_soup"
    /\ Gets # <<>>
    /\ MissingContainer(soup)
    /\ url = Some(U2)
    /\ letters_result = run.letters0
    /\ pages_processed = run.pages0 + 1

\* C9 as stated: the href of an anchor with the label and an href is returned
\* resolved against the base URL whenever the document has such an anchor;
\* None otherwise; neither letters_result nor pages_processed changes.
C9_AnyLabelledAnchor ==
    last.op = "_next_page_url" =>
        /\ LabelledWithHref(last.arg) # {} =>
              \E i \in LabelledWithHref(last.arg) :
                  last.ret = Some(urljoin(BASE_URL, last.arg.anchors[i].href))
        /\ LabelledWithHref(last.arg) = {} => last.ret = None
        /\ letters_result = last.letters0
        /\ pages_processed = last.pages0

\* C9 as amended: only the first anchor with the label counts: its href
\* resolved against the base URL is returned if it has one, None if it has
\* none or there is no such anchor; nothing else changes.
C9_FirstLabelledAnchor ==
    last.op = "_next_page_url" =>
        /\ \A i \in FirstLabelled(last.arg) :
              last.ret = IF last.arg.anchors[i].has_href
                         THEN Some(urljoin(BASE_URL, last.arg.anchors[i].href))
                         ELSE None
        /\ FirstLabelled(last.arg) = {} => last.ret = None
        /\ letters_result = last.letters0
        /\ pages_processed = last.pages0

\* on the page served at /w/index.php the link ?Page3 resolves to the base
\* URL's path, not to /w/index.php
C9_Witness ==
    /\ last.op = "_next_page_url"
    /\ pc = "while"
    /\ Gets # <<>> /\ Gets[Len(Gets)].url = UIndex
    /\ last.ret = Some(U3)

\* C10: with every request answered, parse() returns if the next-link chain
\* from the base URL ends; if the chain cycles it never returns, requests the
\* pages of the cycle again and pages_processed passes every bound.
C10_TerminatesIffChainEnds ==
    /\ (ChainEnds /\ pc = "while") ~> (pc = "done")
    /\ [](ChainCycles => pc # "done")
    /\ (ChainCycles /\ pc = "while") ~> (pages_processed >= MaxParsed)

C10_Witness ==
    /\ ChainCycles
    /\ pages_processed >= MaxParsed
    /\ \E i, j \in 1..Len(Gets) : i < j /\ Gets[i].url = Gets[j].url
    /\ \E L \in DOMAIN letters_result : letters_result[L] > DocCount(web[U0], L)

====
